---- MODULE Spec2Model ----
(***************************************************************************)
(* SubListener of rmw_fastrtps_shared_cpp (custom_subscriber_info.cpp):    *)
(* the status-event aggregation of a subscription (requested deadline      *)
(* missed, liveliness changed), the lock-free hasEvent flags, the          *)
(* draining takeNextEvent and the executor callback registration.          *)
(*                                                                         *)
(* A step is a statement, or a run of statements no other thread can       *)
(* observe apart, of the thread that executes it; a thread blocked on a    *)
(* std::mutex is a thread whose next step is not enabled.  The two         *)
(* std::atomic_bool flags are single variables.  The listener is attached  *)
(* to a wait set: conditionMutex_ and conditionVariable_ are not null.     *)
(* The variables hist, expect and made belong to an observer: they record  *)
(* what was asked of the listener and are read by no step of the code.     *)
(***************************************************************************)
EXTENDS Integers

\* ---------------------------------------------------------------- bounds
\* record calls (on_requested_deadline_missed + on_liveliness_changed) started
MaxRecords == 2

\* ---------------------------------------------------------------- threads
Recorders == {"r1", "r2"}
Consumers == {"c1"}
Registrars == {"s1"}
Waiters == {"w1"}
Threads == Recorders \cup Consumers \cup Registrars \cup Waiters
\* the threads that can run takeNextEvent: a consumer, or a thread that is
\* running the executor callback
Takers == Recorders \cup Consumers \cup Registrars
NoThread == "none"

\* ---------------------------------------------------------------- values
RMW_EVENT_LIVELINESS_CHANGED == "RMW_EVENT_LIVELINESS_CHANGED"
RMW_EVENT_REQUESTED_DEADLINE_MISSED == "RMW_EVENT_REQUESTED_DEADLINE_MISSED"
\* an event type of rmw_event_type_t that the switch statements do not name
RMW_EVENT_OTHER == "RMW_EVENT_OTHER"
\* a value of rmw_event_type_t that is no supported event (RMW_EVENT_INVALID)
RMW_EVENT_INVALID == "RMW_EVENT_INVALID"
Kinds == {RMW_EVENT_LIVELINESS_CHANGED, RMW_EVENT_REQUESTED_DEADLINE_MISSED}
EventTypes == Kinds \cup {RMW_EVENT_OTHER}
AllEventTypes == EventTypes \cup {RMW_EVENT_INVALID}
\* rmw_fastrtps_shared_cpp::internal::is_event_supported: the event types
\* the implementation knows, those of publishers included
is_event_supported(k) == k \in EventTypes

nullptr == "nullptr"
\* the (user_data, callback) pairs eventSetExecutorCallback is called with
Registrations ==
  { [user_data |-> "u", callback |-> "f"],
    [user_data |-> "v", callback |-> "g"],
    [user_data |-> "u", callback |-> nullptr],
    [user_data |-> nullptr, callback |-> nullptr] }

\* RequestedDeadlineMissedStatus values the transport hands over
\* (a missed deadline, two missed at once, and a status without a change)
DeadlineInputs ==
  { [total_count |-> 1, total_count_change |-> 1],
    [total_count |-> 3, total_count_change |-> 2],
    [total_count |-> 2, total_count_change |-> 0] }
\* LivelinessChangedStatus values the transport hands over (a publisher
\* appears, a publisher loses its liveliness, and a status without a change)
LivelinessInputs ==
  { [alive_count |-> 2, not_alive_count |-> 0,
     alive_count_change |-> 1, not_alive_count_change |-> 0],
    [alive_count |-> 1, not_alive_count |-> 3,
     alive_count_change |-> 0 - 1, not_alive_count_change |-> 1],
    [alive_count |-> 1, not_alive_count |-> 0,
     alive_count_change |-> 0, not_alive_count_change |-> 0] }
Inputs(k) ==
  IF k = RMW_EVENT_REQUESTED_DEADLINE_MISSED THEN DeadlineInputs ELSE LivelinessInputs

NoStatus == [none |-> TRUE]
\* the caller's event_info buffer before takeNextEvent writes to it
Uninit == [uninit |-> TRUE]
NoCall == [none |-> TRUE]
\* what a call hands back: nothing yet, a value, or an exception
NoValue == [none |-> TRUE]
Returned(v) == [value |-> v]
Threw(e) == [exception |-> e]
NoExpect == [none |-> TRUE]
\* what the running record or eventSetExecutorCallback call has done so far:
\* callback invocations made and events put aside, and, from the moment it
\* locked listener_callback_mutex_, the events that were waiting for a
\* callback (pending) and the value unread_events_count_ had (counter)
NoneMade == [calls |-> 0, buffered |-> 0, pending |-> 0, counter |-> 0]

\* the absolute fields and the delta fields of a status value of kind k
AbsOf(k, s) ==
  IF k = RMW_EVENT_REQUESTED_DEADLINE_MISSED
  THEN [total_count |-> s.total_count]
  ELSE [alive_count |-> s.alive_count, not_alive_count |-> s.not_alive_count]
DeltaOf(k, s) ==
  IF k = RMW_EVENT_REQUESTED_DEADLINE_MISSED
  THEN [total_count_change |-> s.total_count_change]
  ELSE [alive_count_change |-> s.alive_count_change,
        not_alive_count_change |-> s.not_alive_count_change]
ZeroDelta(k) ==
  IF k = RMW_EVENT_REQUESTED_DEADLINE_MISSED
  THEN [total_count_change |-> 0]
  ELSE [alive_count_change |-> 0, not_alive_count_change |-> 0]
AddDelta(a, b) == [f \in DOMAIN a |-> a[f] + b[f]]

\* ---------------------------------------------------------------- state
VARIABLES
  pc,                                 \* each thread's position
  internalMutex_,                     \* owner of the std::mutex, or NoThread
  conditionMutex_,
  listener_callback_mutex_,
  requested_deadline_missed_status_,
  liveliness_changed_status_,
  deadline_changes_,
  liveliness_changes_,
  listener_callback_,
  user_data_,
  unread_events_count_,
  handler,                            \* the handler a transport thread runs
  status,                             \* its `status` parameter, while in use
  registration,                       \* eventSetExecutorCallback's parameters
  event_type,                         \* takeNextEvent's / hasEvent's parameter
  event_info,                         \* takeNextEvent's out parameter
  ret,                                \* the value the call returns
  call,                               \* the arguments of the running callback
  hist,                               \* history of the endpoint (observer)
  expect,                             \* what the observer recorded for a take
  made                                \* what the running call did (observer)

dataVars == <<requested_deadline_missed_status_, liveliness_changed_status_,
              deadline_changes_, liveliness_changes_>>
lockVars == <<internalMutex_, conditionMutex_, listener_callback_mutex_>>
notifVars == <<listener_callback_, user_data_, unread_events_count_>>
recVars == <<handler, status>>
takeVars == <<event_type, event_info, ret, expect>>
vars == <<pc, internalMutex_, conditionMutex_, listener_callback_mutex_,
          requested_deadline_missed_status_, liveliness_changed_status_,
          deadline_changes_, liveliness_changes_,
          listener_callback_, user_data_, unread_events_count_,
          handler, status, registration, event_type, event_info, ret, call,
          hist, expect, made>>

\* the stored status of kind k
StatusOf(k) ==
  IF k = RMW_EVENT_REQUESTED_DEADLINE_MISSED
  THEN requested_deadline_missed_status_ ELSE liveliness_changed_status_

Init ==
  /\ pc = [t \in Threads |-> "idle"]
  /\ internalMutex_ = NoThread
  /\ conditionMutex_ = NoThread
  /\ listener_callback_mutex_ = NoThread
  /\ requested_deadline_missed_status_ = [total_count |-> 0, total_count_change |-> 0]
  /\ liveliness_changed_status_ =
       [alive_count |-> 0, not_alive_count |-> 0,
        alive_count_change |-> 0, not_alive_count_change |-> 0]
  /\ deadline_changes_ = FALSE
  /\ liveliness_changes_ = FALSE
  /\ listener_callback_ = nullptr
  /\ user_data_ = nullptr
  /\ unread_events_count_ = 0
  /\ handler = [t \in Recorders |-> nullptr]
  /\ status = [t \in Recorders |-> NoStatus]
  /\ registration = [t \in Registrars |-> NoCall]
  /\ event_type = [t \in Takers |-> nullptr]
  /\ event_info = [t \in Takers |-> Uninit]
  /\ ret = [t \in Takers |-> NoValue]
  /\ call = [t \in Takers |-> NoCall]
  /\ hist = [ delta |-> [k \in Kinds |-> ZeroDelta(k)],
              abs |-> [k \in Kinds |-> AbsOf(k, StatusOf(k))],
              recorded |-> [k \in Kinds |-> FALSE],
              prev |-> [k \in Kinds |-> Uninit],
              started |-> 0,
              completed |-> 0,
              buffered |-> 0,
              delivered |-> 0,
              carried |-> 0 - 1 ]
  /\ expect = [t \in Takers |-> NoExpect]
  /\ made = [t \in Takers |-> NoneMade]

Goto(t, l) == pc' = [pc EXCEPT ![t] = l]

\* the observer's account of a step of thread t: what was handed to a
\* callback, and what was put aside for a later one
Observed(t) ==
  LET locked == listener_callback_mutex_ # t /\ listener_callback_mutex_' = t
      invoked == call[t] = NoCall /\ call'[t] # NoCall
      put == pc[t] = "r_notify" /\ listener_callback_ = nullptr
  IN /\ made' = [made EXCEPT
                   ![t].calls = @ + (IF invoked THEN 1 ELSE 0),
                   ![t].buffered = @ + (IF put THEN 1 ELSE 0),
                   ![t].pending = IF locked THEN hist.buffered ELSE @,
                   ![t].counter = IF locked THEN unread_events_count_ ELSE @]
     /\ hist' = [hist EXCEPT
                   !.delivered = @ + (IF invoked THEN call'[t].count ELSE 0),
                   !.buffered = IF invoked /\ t \in Registrars THEN 0
                                ELSE IF put THEN @ + 1 ELSE @]

\* ------------------------------------------------- the handlers (record)
\* (a slip: the absolute value is accumulated like a delta)
AssignAbsolute_accumulated(cur, new) == cur + new
\* line 40, 67, 68: the absolute value is assigned
AssignAbsolute(cur, new) == new
\* (a slip: the delta is assigned like an absolute value)
AccumulateDelta_assigned(cur, change) == change
\* line 42, 70, 71: the delta is accumulated
AccumulateDelta(cur, change) == cur + change

\* line 33 / 60: std::lock_guard<std::mutex> lock(internalMutex_).  The
\* observer adds the status to what has been recorded since the last take.
RecordLockInternalWith(t, k, s) ==
  /\ pc[t] = "idle"
  /\ hist.started < MaxRecords
  /\ internalMutex_ = NoThread
  /\ internalMutex_' = t
  /\ handler' = [handler EXCEPT ![t] = k]
  /\ status' = [status EXCEPT ![t] = s]
  /\ hist' = [hist EXCEPT !.delta[k] = AddDelta(@, DeltaOf(k, s)),
                          !.abs[k] = AbsOf(k, s),
                          !.recorded[k] = TRUE,
                          !.prev[k] = Uninit,
                          !.started = @ + 1]
  /\ Goto(t, "r_lock_cond")
  /\ UNCHANGED <<conditionMutex_, listener_callback_mutex_, dataVars, notifVars,
                 registration, takeVars, call, made>>

\* the transport calls the handler of kind k with one of the status values
RecordLockInternal(t, k) == \E s \in Inputs(k) : RecordLockInternalWith(t, k, s)

\* (a slip: the handler goes on without the wait-coordination mutex)
RecordLockCondition_skipped(t, k) ==
  /\ pc[t] = "r_lock_cond"
  /\ handler[t] = k
  /\ Goto(t, "r_update")
  /\ UNCHANGED <<lockVars, dataVars, notifVars,
                 recVars, registration, takeVars, call, hist, made>>

\* line 37 / 64: ConditionalScopedLock clock(conditionMutex_, conditionVariable_)
RecordLockCondition(t, k) ==
  /\ pc[t] = "r_lock_cond"
  /\ handler[t] = k
  /\ conditionMutex_ = NoThread
  /\ conditionMutex_' = t
  /\ Goto(t, "r_update")
  /\ UNCHANGED <<internalMutex_, listener_callback_mutex_, dataVars, notifVars,
                 recVars, registration, takeVars, call, hist, made>>

\* lines 40-42: requested_deadline_missed_status_ takes the absolute count
\* and accumulates the change; `status` is not read after this
DeadlineUpdate(t) ==
  /\ pc[t] = "r_update"
  /\ handler[t] = RMW_EVENT_REQUESTED_DEADLINE_MISSED
  /\ requested_deadline_missed_status_' =
       [requested_deadline_missed_status_ EXCEPT
          !.total_count = AssignAbsolute(@, status[t].total_count),
          !.total_count_change = AccumulateDelta(@, status[t].total_count_change)]
  /\ status' = [status EXCEPT ![t] = NoStatus]
  /\ Goto(t, "r_flag")
  /\ UNCHANGED <<lockVars, liveliness_changed_status_, deadline_changes_,
                 liveliness_changes_, notifVars, handler, registration, takeVars,
                 call, hist, made>>

\* (a slip: the handler goes on to the callback without setting the flag)
DeadlineStoreFlag_unset(t) ==
  /\ pc[t] = "r_flag"
  /\ handler[t] = RMW_EVENT_REQUESTED_DEADLINE_MISSED
  /\ Goto(t, "r_lock_cb")
  /\ UNCHANGED <<lockVars, dataVars, notifVars,
                 recVars, registration, takeVars, call, hist, made>>

\* line 44: deadline_changes_.store(true, std::memory_order_relaxed)
DeadlineStoreFlag(t) ==
  /\ pc[t] = "r_flag"
  /\ handler[t] = RMW_EVENT_REQUESTED_DEADLINE_MISSED
  /\ deadline_changes_' = TRUE
  /\ Goto(t, "r_lock_cb")
  /\ UNCHANGED <<lockVars, requested_deadline_missed_status_,
                 liveliness_changed_status_, liveliness_changes_, notifVars,
                 recVars, registration, takeVars, call, hist, made>>

\* lines 67-71: liveliness_changed_status_ takes the two absolute counts
\* and accumulates the two changes; `status` is not read after this
LivelinessUpdate(t) ==
  /\ pc[t] = "r_update"
  /\ handler[t] = RMW_EVENT_LIVELINESS_CHANGED
  /\ liveliness_changed_status_' =
       [liveliness_changed_status_ EXCEPT
          !.alive_count = AssignAbsolute(@, status[t].alive_count),
          !.not_alive_count = AssignAbsolute(@, status[t].not_alive_count),
          !.alive_count_change = AccumulateDelta(@, status[t].alive_count_change),
          !.not_alive_count_change =
             AccumulateDelta(@, status[t].not_alive_count_change)]
  /\ status' = [status EXCEPT ![t] = NoStatus]
  /\ Goto(t, "r_flag")
  /\ UNCHANGED <<lockVars, requested_deadline_missed_status_, deadline_changes_,
                 liveliness_changes_, notifVars, handler, registration, takeVars,
                 call, hist, made>>

\* line 73: liveliness_changes_.store(true, std::memory_order_relaxed)
LivelinessStoreFlag(t) ==
  /\ pc[t] = "r_flag"
  /\ handler[t] = RMW_EVENT_LIVELINESS_CHANGED
  /\ liveliness_changes_' = TRUE
  /\ Goto(t, "r_lock_cb")
  /\ UNCHANGED <<lockVars, requested_deadline_missed_status_,
                 liveliness_changed_status_, deadline_changes_, notifVars,
                 recVars, registration, takeVars, call, hist, made>>

\* line 47 / 76: std::unique_lock<std::mutex> lock_mutex(listener_callback_mutex_)
RecordLockCallback(t, k) ==
  /\ pc[t] = "r_lock_cb"
  /\ handler[t] = k
  /\ listener_callback_mutex_ = NoThread
  /\ listener_callback_mutex_' = t
  /\ Goto(t, "r_notify")
  /\ UNCHANGED <<internalMutex_, conditionMutex_, dataVars, notifVars,
                 recVars, registration, takeVars, call>>
  /\ Observed(t)

\* (a slip: the event is counted although the callback is invoked)
Notify_counted(t) ==
  IF listener_callback_ # nullptr
  THEN /\ call' = [call EXCEPT ![t] = [callback |-> listener_callback_,
                                       user_data |-> user_data_, count |-> 1]]
       /\ Goto(t, "in_callback")
       /\ unread_events_count_' = unread_events_count_ + 1
  ELSE /\ unread_events_count_' = unread_events_count_ + 1
       /\ Goto(t, "r_unlock_cb")
       /\ UNCHANGED call

\* lines 49-53 / 78-82: the callback is invoked with (user_data_, 1), or the
\* event is counted
Notify(t) ==
  IF listener_callback_ # nullptr
  THEN /\ call' = [call EXCEPT ![t] = [callback |-> listener_callback_,
                                       user_data |-> user_data_, count |-> 1]]
       /\ Goto(t, "in_callback")
       /\ UNCHANGED unread_events_count_
  ELSE /\ unread_events_count_' = unread_events_count_ + 1
       /\ Goto(t, "r_unlock_cb")
       /\ UNCHANGED call

RecordNotify(t, k) ==
  /\ pc[t] = "r_notify"
  /\ handler[t] = k
  /\ Notify(t)
  /\ Observed(t)
  /\ UNCHANGED <<lockVars, dataVars, listener_callback_, user_data_,
                 recVars, registration, takeVars>>

\* the callback returns to the handler or to eventSetExecutorCallback
CallbackReturn(t) ==
  /\ pc[t] \in {"in_callback", "cb_tail"}
  /\ call' = [call EXCEPT ![t] = NoCall]
  /\ Goto(t, IF t \in Recorders THEN "r_unlock_cb" ELSE "s_reset")
  /\ UNCHANGED <<lockVars, dataVars, notifVars, recVars, registration, takeVars,
                 hist, made>>

\* (a slip: listener_callback_mutex_ stays locked when the handler goes on)
RecordUnlockCallback_kept(t, k) ==
  /\ pc[t] = "r_unlock_cb"
  /\ handler[t] = k
  /\ Goto(t, "r_unlock_cond")
  /\ UNCHANGED <<lockVars, dataVars, notifVars,
                 recVars, registration, takeVars, call, hist, made>>

\* line 54 / 83: lock_mutex goes out of scope
RecordUnlockCallback(t, k) ==
  /\ pc[t] = "r_unlock_cb"
  /\ handler[t] = k
  /\ listener_callback_mutex_' = NoThread
  /\ Goto(t, "r_unlock_cond")
  /\ UNCHANGED <<internalMutex_, conditionMutex_, dataVars, notifVars,
                 recVars, registration, takeVars, call, hist, made>>

\* line 54 / 83: clock goes out of scope: ~ConditionalScopedLock unlocks the
\* mutex ...
RecordUnlockCondition(t, k) ==
  /\ pc[t] = "r_unlock_cond"
  /\ handler[t] = k
  /\ conditionMutex_' = NoThread
  /\ Goto(t, "r_notify_all")
  /\ UNCHANGED <<internalMutex_, listener_callback_mutex_, dataVars, notifVars,
                 recVars, registration, takeVars, call, hist, made>>

\* ... and then signals the condition variable: every sleeping waiter wakes
RecordNotifyAll(t, k) ==
  /\ pc[t] = "r_notify_all"
  /\ handler[t] = k
  /\ pc' = [x \in Threads |->
              IF x = t THEN "r_unlock_internal"
              ELSE IF pc[x] = "w_asleep" THEN "w_wake" ELSE pc[x]]
  /\ UNCHANGED <<lockVars, dataVars, notifVars, recVars, registration, takeVars,
                 call, hist, made>>

\* line 54 / 83: lock goes out of scope and the handler returns
RecordUnlockInternal(t, k) ==
  /\ pc[t] = "r_unlock_internal"
  /\ handler[t] = k
  /\ internalMutex_' = NoThread
  /\ handler' = [handler EXCEPT ![t] = nullptr]
  /\ made' = [made EXCEPT ![t] = NoneMade]
  /\ ret' = [ret EXCEPT ![t] = NoValue]
  /\ hist' = [hist EXCEPT !.completed = @ + 1]
  /\ Goto(t, "idle")
  /\ UNCHANGED <<conditionMutex_, listener_callback_mutex_, dataVars, notifVars,
                 status, registration, event_type, event_info, expect, call>>

\* the steps of a handler after it has locked internalMutex_, the return of
\* the callback it invokes included
RecordBody(t) ==
  \/ \E k \in Kinds :
       \/ RecordLockCondition(t, k)
       \/ RecordLockCallback(t, k)
       \/ RecordNotify(t, k)
       \/ RecordUnlockCallback(t, k)
       \/ RecordUnlockCondition(t, k)
       \/ RecordNotifyAll(t, k)
       \/ RecordUnlockInternal(t, k)
  \/ DeadlineUpdate(t)
  \/ DeadlineStoreFlag(t)
  \/ LivelinessUpdate(t)
  \/ LivelinessStoreFlag(t)
  \/ CallbackReturn(t)

on_requested_deadline_missed(t) ==
  \/ RecordLockInternal(t, RMW_EVENT_REQUESTED_DEADLINE_MISSED)
  \/ RecordLockCondition(t, RMW_EVENT_REQUESTED_DEADLINE_MISSED)
  \/ DeadlineUpdate(t)
  \/ DeadlineStoreFlag(t)
  \/ RecordLockCallback(t, RMW_EVENT_REQUESTED_DEADLINE_MISSED)
  \/ RecordNotify(t, RMW_EVENT_REQUESTED_DEADLINE_MISSED)
  \/ RecordUnlockCallback(t, RMW_EVENT_REQUESTED_DEADLINE_MISSED)
  \/ RecordUnlockCondition(t, RMW_EVENT_REQUESTED_DEADLINE_MISSED)
  \/ RecordNotifyAll(t, RMW_EVENT_REQUESTED_DEADLINE_MISSED)
  \/ RecordUnlockInternal(t, RMW_EVENT_REQUESTED_DEADLINE_MISSED)

on_liveliness_changed(t) ==
  \/ RecordLockInternal(t, RMW_EVENT_LIVELINESS_CHANGED)
  \/ RecordLockCondition(t, RMW_EVENT_LIVELINESS_CHANGED)
  \/ LivelinessUpdate(t)
  \/ LivelinessStoreFlag(t)
  \/ RecordLockCallback(t, RMW_EVENT_LIVELINESS_CHANGED)
  \/ RecordNotify(t, RMW_EVENT_LIVELINESS_CHANGED)
  \/ RecordUnlockCallback(t, RMW_EVENT_LIVELINESS_CHANGED)
  \/ RecordUnlockCondition(t, RMW_EVENT_LIVELINESS_CHANGED)
  \/ RecordNotifyAll(t, RMW_EVENT_LIVELINESS_CHANGED)
  \/ RecordUnlockInternal(t, RMW_EVENT_LIVELINESS_CHANGED)

\* ------------------------------------------------------------- hasEvent
\* (a slip: the two cases answer with each other's flag)
hasEvent_swapped(k) ==
  CASE k = RMW_EVENT_LIVELINESS_CHANGED -> deadline_changes_
    [] k = RMW_EVENT_REQUESTED_DEADLINE_MISSED -> liveliness_changes_
    [] OTHER -> FALSE

\* lines 88-96: the switch of hasEvent
hasEvent(k) ==
  CASE k = RMW_EVENT_LIVELINESS_CHANGED -> liveliness_changes_
    [] k = RMW_EVENT_REQUESTED_DEADLINE_MISSED -> deadline_changes_
    [] OTHER -> FALSE

\* a consumer polls a supported event type (line 87 asserts that it is one)
HasEventCall(t, k) ==
  /\ pc[t] = "idle"
  /\ event_type' = [event_type EXCEPT ![t] = k]
  /\ ret' = [ret EXCEPT ![t] = Returned(hasEvent(k))]
  /\ Goto(t, "h_ret")
  /\ UNCHANGED <<lockVars, dataVars, notifVars, recVars, registration,
                 event_info, expect, call, hist, made>>

HasEventReturn(t) ==
  /\ pc[t] = "h_ret"
  /\ event_type' = [event_type EXCEPT ![t] = nullptr]
  /\ ret' = [ret EXCEPT ![t] = NoValue]
  /\ Goto(t, "idle")
  /\ UNCHANGED <<lockVars, dataVars, notifVars, recVars, registration,
                 event_info, expect, call, hist, made>>

\* --------------------------------------------- eventSetExecutorCallback
\* line 103: std::unique_lock<std::mutex> lock_mutex(listener_callback_mutex_)
SetCallbackLockWith(t, r) ==
  /\ pc[t] = "idle"
  /\ listener_callback_mutex_ = NoThread
  /\ listener_callback_mutex_' = t
  /\ registration' = [registration EXCEPT ![t] = r]
  /\ Goto(t, "s_test")
  /\ UNCHANGED <<internalMutex_, conditionMutex_, dataVars, notifVars,
                 recVars, takeVars, call>>
  /\ Observed(t)

\* eventSetExecutorCallback is called with one of the registrations
SetCallbackLock(t) == \E r \in Registrations : SetCallbackLockWith(t, r)

\* (a slip: the events that waited are pushed as one event)
FlushCall_one(t) ==
  [callback |-> registration[t].callback,
   user_data |-> registration[t].user_data,
   count |-> 1]

\* line 108: callback(user_data, unread_events_count_)
FlushCall(t) ==
  [callback |-> registration[t].callback,
   user_data |-> registration[t].user_data,
   count |-> unread_events_count_]

\* (a slip: the callback is stored without the waiting events being pushed)
SetCallbackTest_unpushed(t) ==
  /\ pc[t] = "s_test"
  /\ Goto(t, IF registration[t].callback # nullptr THEN "s_store" ELSE "s_clear")
  /\ UNCHANGED <<lockVars, dataVars, notifVars, recVars, registration, takeVars,
                 call>>
  /\ Observed(t)

\* lines 105-108: the two tests, and the call that pushes the events that
\* arrived before the callback was set
SetCallbackTest(t) ==
  /\ pc[t] = "s_test"
  /\ IF registration[t].callback # nullptr
     THEN IF unread_events_count_ # 0
          THEN /\ call' = [call EXCEPT ![t] = FlushCall(t)]
               /\ Goto(t, "in_callback")
          ELSE /\ Goto(t, "s_store")
               /\ UNCHANGED call
     ELSE /\ Goto(t, "s_clear")
          /\ UNCHANGED call
  /\ UNCHANGED <<lockVars, dataVars, notifVars, recVars, registration, takeVars>>
  /\ Observed(t)

\* (a slip: the counter is left as it is after the events were pushed)
SetCallbackReset_kept(t) ==
  /\ pc[t] = "s_reset"
  /\ Goto(t, "s_store")
  /\ UNCHANGED <<lockVars, dataVars, notifVars, recVars,
                 registration, takeVars, call, hist, made>>

\* line 109: unread_events_count_ = 0
SetCallbackReset(t) ==
  /\ pc[t] = "s_reset"
  /\ unread_events_count_' = 0
  /\ Goto(t, "s_store")
  /\ UNCHANGED <<lockVars, dataVars, listener_callback_, user_data_, recVars,
                 registration, takeVars, call, hist, made>>

\* (a slip: the callback is stored and the user data is left as it was)
SetCallbackStore_torn(t) ==
  /\ pc[t] = "s_store"
  /\ listener_callback_' = registration[t].callback
  /\ hist' = [hist EXCEPT !.carried = 0 - 1]
  /\ Goto(t, "s_unlock")
  /\ UNCHANGED <<lockVars, dataVars, user_data_, unread_events_count_, recVars,
                 registration, takeVars, call, made>>

\* lines 111-112: user_data_ = user_data; listener_callback_ = callback
SetCallbackStore(t) ==
  /\ pc[t] = "s_store"
  /\ user_data_' = registration[t].user_data
  /\ listener_callback_' = registration[t].callback
  /\ hist' = [hist EXCEPT !.carried = 0 - 1]
  /\ Goto(t, "s_unlock")
  /\ UNCHANGED <<lockVars, dataVars, unread_events_count_, recVars,
                 registration, takeVars, call, made>>

\* (a slip: clearing the callback also drops the events counted so far)
SetCallbackClear_dropping(t) ==
  /\ pc[t] = "s_clear"
  /\ user_data_' = nullptr
  /\ listener_callback_' = nullptr
  /\ unread_events_count_' = 0
  /\ Goto(t, "s_unlock")
  /\ UNCHANGED <<lockVars, dataVars, recVars,
                 registration, takeVars, call, hist, made>>

\* lines 114-115: user_data_ = nullptr; listener_callback_ = nullptr
SetCallbackClear(t) ==
  /\ pc[t] = "s_clear"
  /\ user_data_' = nullptr
  /\ listener_callback_' = nullptr
  /\ Goto(t, "s_unlock")
  /\ UNCHANGED <<lockVars, dataVars, unread_events_count_, recVars,
                 registration, takeVars, call, hist, made>>

\* lines 114-115, watched by an observer that notes how many events were
\* waiting when the callback was cleared
SetCallbackClearNoted(t) ==
  /\ pc[t] = "s_clear"
  /\ user_data_' = nullptr
  /\ listener_callback_' = nullptr
  /\ hist' = [hist EXCEPT !.carried = hist.buffered]
  /\ Goto(t, "s_unlock")
  /\ UNCHANGED <<lockVars, dataVars, unread_events_count_, recVars,
                 registration, takeVars, call, made>>

\* line 116 / 118: lock_mutex goes out of scope and the call returns
SetCallbackUnlock(t) ==
  /\ pc[t] = "s_unlock"
  /\ listener_callback_mutex_' = NoThread
  /\ registration' = [registration EXCEPT ![t] = NoCall]
  /\ made' = [made EXCEPT ![t] = NoneMade]
  /\ Goto(t, "idle")
  /\ UNCHANGED <<internalMutex_, conditionMutex_, dataVars, notifVars,
                 recVars, takeVars, call, hist>>

\* the steps of eventSetExecutorCallback after it has locked
\* listener_callback_mutex_, the return of the callback it invokes included
SetCallbackBody(t) ==
  \/ SetCallbackTest(t)
  \/ SetCallbackReset(t)
  \/ SetCallbackStore(t)
  \/ SetCallbackClear(t)
  \/ SetCallbackUnlock(t)
  \/ CallbackReturn(t)

eventSetExecutorCallback(t) ==
  \/ SetCallbackLock(t)
  \/ SetCallbackTest(t)
  \/ SetCallbackReset(t)
  \/ SetCallbackStore(t)
  \/ SetCallbackClear(t)
  \/ SetCallbackUnlock(t)


\* --------------------------------------------------------- takeNextEvent
\* a consumer calls takeNextEvent(event_type, event_info)
TakeCall(t, k) ==
  /\ pc[t] = "idle"
  /\ event_type' = [event_type EXCEPT ![t] = k]
  /\ event_info' = [event_info EXCEPT ![t] = Uninit]
  /\ Goto(t, "take_lock")
  /\ UNCHANGED <<lockVars, dataVars, notifVars, recVars, registration, ret,
                 expect, call, hist, made>>

\* line 122: assert(is_event_supported(event_type)) in a build without
\* NDEBUG, called with an event type that is not supported: the process
\* aborts.  (With NDEBUG the assert is no statement and TakeCall goes on.)
TakeAssertFails(t, k) ==
  /\ pc[t] = "idle"
  /\ ~is_event_supported(k)
  /\ event_type' = [event_type EXCEPT ![t] = k]
  /\ ret' = [ret EXCEPT ![t] = Threw("abort")]
  /\ pc' = [x \in Threads |-> "aborted"]
  /\ UNCHANGED <<lockVars, dataVars, notifVars, recVars, registration,
                 event_info, expect, call, hist, made>>

\* (a slip: takeNextEvent goes on without waiting for internalMutex_)
TakeLock_unguarded(t) ==
  /\ pc[t] = "take_lock"
  /\ internalMutex_' = t
  /\ IF event_type[t] \in Kinds
     THEN /\ expect' = [expect EXCEPT ![t] =
                          [delta |-> hist.delta[event_type[t]],
                           abs |-> hist.abs[event_type[t]],
                           recorded |-> hist.recorded[event_type[t]],
                           prev |-> hist.prev[event_type[t]]]]
          /\ hist' = [hist EXCEPT !.delta[event_type[t]] = ZeroDelta(event_type[t]),
                                  !.recorded[event_type[t]] = FALSE]
          /\ Goto(t, "take_copy")
     ELSE /\ Goto(t, "take_default")
          /\ UNCHANGED <<expect, hist>>
  /\ UNCHANGED <<conditionMutex_, listener_callback_mutex_, dataVars, notifVars,
                 recVars, registration, event_type, event_info, ret, call, made>>

\* line 123: std::lock_guard<std::mutex> lock(internalMutex_), and the
\* switch of line 124.  The observer notes what has been recorded for the
\* event type since the take before this one.
TakeLock(t) ==
  /\ pc[t] = "take_lock"
  /\ internalMutex_ = NoThread
  /\ internalMutex_' = t
  /\ IF event_type[t] \in Kinds
     THEN /\ expect' = [expect EXCEPT ![t] =
                          [delta |-> hist.delta[event_type[t]],
                           abs |-> hist.abs[event_type[t]],
                           recorded |-> hist.recorded[event_type[t]],
                           prev |-> hist.prev[event_type[t]]]]
          /\ hist' = [hist EXCEPT !.delta[event_type[t]] = ZeroDelta(event_type[t]),
                                  !.recorded[event_type[t]] = FALSE]
          /\ Goto(t, "take_copy")
     ELSE /\ Goto(t, "take_default")
          /\ UNCHANGED <<expect, hist>>
  /\ UNCHANGED <<conditionMutex_, listener_callback_mutex_, dataVars, notifVars,
                 recVars, registration, event_type, event_info, ret, call, made>>

\* lines 128-131: the liveliness status is copied to event_info
CopyLiveliness(s) ==
  [alive_count |-> s.alive_count,
   not_alive_count |-> s.not_alive_count,
   alive_count_change |-> s.alive_count_change,
   not_alive_count_change |-> s.not_alive_count_change]
\* lines 140-141: the deadline status is copied to event_info
CopyDeadline(s) ==
  [total_count |-> s.total_count,
   total_count_change |-> s.total_count_change]
\* (a slip: the liveliness deltas are not reset)
ResetLiveliness_kept(s) == s
\* (a slip: the absolute liveliness counts are reset with the deltas)
ResetLiveliness_absolute(s) ==
  [s EXCEPT !.alive_count = 0, !.not_alive_count = 0,
            !.alive_count_change = 0, !.not_alive_count_change = 0]
\* lines 132-133: the liveliness deltas are reset
ResetLiveliness(s) ==
  [s EXCEPT !.alive_count_change = 0, !.not_alive_count_change = 0]
\* (a slip: the deadline delta is not reset)
ResetDeadline_kept(s) == s
\* line 142: the deadline delta is reset
ResetDeadline(s) == [s EXCEPT !.total_count_change = 0]

TakeCopy(t, k) ==
  /\ pc[t] = "take_copy"
  /\ event_type[t] = k
  /\ event_info' = [event_info EXCEPT ![t] =
                      IF k = RMW_EVENT_LIVELINESS_CHANGED
                      THEN CopyLiveliness(liveliness_changed_status_)
                      ELSE CopyDeadline(requested_deadline_missed_status_)]
  /\ Goto(t, "take_reset")
  /\ UNCHANGED <<lockVars, dataVars, notifVars, recVars, registration,
                 event_type, ret, expect, call, hist, made>>

TakeReset(t, k) ==
  /\ pc[t] = "take_reset"
  /\ event_type[t] = k
  /\ IF k = RMW_EVENT_LIVELINESS_CHANGED
     THEN /\ liveliness_changed_status_' = ResetLiveliness(liveliness_changed_status_)
          /\ UNCHANGED requested_deadline_missed_status_
     ELSE /\ requested_deadline_missed_status_' =
               ResetDeadline(requested_deadline_missed_status_)
          /\ UNCHANGED liveliness_changed_status_
  /\ Goto(t, "take_store")
  /\ UNCHANGED <<lockVars, deadline_changes_, liveliness_changes_, notifVars,
                 recVars, registration, takeVars, call, hist, made>>

\* line 134 / 143: the flag is cleared; line 149: return true
TakeStoreFlag(t, k) ==
  /\ pc[t] = "take_store"
  /\ event_type[t] = k
  /\ IF k = RMW_EVENT_LIVELINESS_CHANGED
     THEN /\ liveliness_changes_' = FALSE
          /\ UNCHANGED deadline_changes_
     ELSE /\ deadline_changes_' = FALSE
          /\ UNCHANGED liveliness_changes_
  /\ ret' = [ret EXCEPT ![t] = Returned(TRUE)]
  /\ Goto(t, "take_unlock")
  /\ UNCHANGED <<lockVars, requested_deadline_missed_status_,
                 liveliness_changed_status_, notifVars, recVars, registration,
                 event_type, event_info, expect, call, hist, made>>

\* lines 146-147: default: return false
TakeDefault(t) ==
  /\ pc[t] = "take_default"
  /\ ret' = [ret EXCEPT ![t] = Returned(FALSE)]
  /\ Goto(t, "take_unlock")
  /\ UNCHANGED <<lockVars, dataVars, notifVars, recVars, registration,
                 event_type, event_info, expect, call, hist, made>>

\* line 150: lock goes out of scope and the call returns, to the consumer
\* or to the callback that made it
TakeUnlock(t) ==
  /\ pc[t] = "take_unlock"
  /\ internalMutex_' = NoThread
  /\ IF event_type[t] \in Kinds
     THEN hist' = [hist EXCEPT !.prev[event_type[t]] =
                                  AbsOf(event_type[t], event_info[t])]
     ELSE UNCHANGED hist
  /\ event_type' = [event_type EXCEPT ![t] = nullptr]
  /\ event_info' = [event_info EXCEPT ![t] = Uninit]
  /\ ret' = [ret EXCEPT ![t] = NoValue]
  /\ expect' = [expect EXCEPT ![t] = NoExpect]
  /\ Goto(t, IF t \in Consumers THEN "idle" ELSE "cb_tail")
  /\ UNCHANGED <<conditionMutex_, listener_callback_mutex_, dataVars, notifVars,
                 recVars, registration, call, made>>

takeNextEvent(t) ==
  \/ TakeLock(t)
  \/ \E k \in Kinds : TakeCopy(t, k) \/ TakeReset(t, k) \/ TakeStoreFlag(t, k)
  \/ TakeDefault(t)
  \/ TakeUnlock(t)

\* ------------------------------------------ the waiter (rmw_wait's part)
\* the waiter locks the wait-coordination mutex ...
WaitLock(w) ==
  /\ pc[w] = "idle"
  /\ conditionMutex_ = NoThread
  /\ conditionMutex_' = w
  /\ Goto(w, "w_check")
  /\ UNCHANGED <<internalMutex_, listener_callback_mutex_, dataVars, notifVars,
                 recVars, registration, takeVars, call, hist, made>>

\* ... asks hasEvent for the events it waits for, and decides to sleep
\* when there is none
WaitCheck(w) ==
  /\ pc[w] = "w_check"
  /\ Goto(w, IF \E k \in Kinds : hasEvent(k) THEN "w_unlock" ELSE "w_sleep")
  /\ UNCHANGED <<lockVars, dataVars, notifVars, recVars, registration, takeVars,
                 call, hist, made>>

\* condition_variable::wait: the mutex is released and the thread sleeps,
\* in one step
WaitSleep(w) ==
  /\ pc[w] = "w_sleep"
  /\ conditionMutex_' = NoThread
  /\ Goto(w, "w_asleep")
  /\ UNCHANGED <<internalMutex_, listener_callback_mutex_, dataVars, notifVars,
                 recVars, registration, takeVars, call, hist, made>>

\* a timeout or a spurious wake-up
WaitTimeout(w) ==
  /\ pc[w] = "w_asleep"
  /\ Goto(w, "w_wake")
  /\ UNCHANGED <<lockVars, dataVars, notifVars, recVars, registration, takeVars,
                 call, hist, made>>

\* the woken thread locks the mutex again before wait returns
WaitWake(w) ==
  /\ pc[w] = "w_wake"
  /\ conditionMutex_ = NoThread
  /\ conditionMutex_' = w
  /\ Goto(w, "w_unlock")
  /\ UNCHANGED <<internalMutex_, listener_callback_mutex_, dataVars, notifVars,
                 recVars, registration, takeVars, call, hist, made>>

WaitUnlock(w) ==
  /\ pc[w] = "w_unlock"
  /\ conditionMutex_' = NoThread
  /\ Goto(w, "idle")
  /\ UNCHANGED <<internalMutex_, listener_callback_mutex_, dataVars, notifVars,
                 recVars, registration, takeVars, call, hist, made>>

\* the steps of a waiter that has started to wait and is not asleep
WaitBody(w) ==
  \/ WaitCheck(w)
  \/ WaitSleep(w)
  \/ WaitWake(w)
  \/ WaitUnlock(w)

Wait(w) ==
  \/ WaitLock(w)
  \/ WaitCheck(w)
  \/ WaitSleep(w)
  \/ WaitTimeout(w)
  \/ WaitWake(w)
  \/ WaitUnlock(w)

\* ------------------------------------------ a callback that calls take
\* the executor callback calls takeNextEvent before it returns
CallbackTake(t, k) ==
  /\ pc[t] = "in_callback"
  /\ event_type' = [event_type EXCEPT ![t] = k]
  /\ event_info' = [event_info EXCEPT ![t] = Uninit]
  /\ Goto(t, "take_lock")
  /\ UNCHANGED <<lockVars, dataVars, notifVars, recVars, registration, ret,
                 expect, call, hist, made>>

\* line 123 reached by the thread that owns internalMutex_ already (line 33
\* / 60): locking a std::mutex twice is undefined.  The thread hangs (no
\* step), or lock() throws std::system_error, which leaves the callback and
\* the handler, releasing the locks of the handler on its way.
TakeLockThrows(t) ==
  /\ pc[t] = "take_lock"
  /\ internalMutex_ = t
  /\ ret' = [ret EXCEPT ![t] = Threw("std::system_error")]
  /\ event_type' = [event_type EXCEPT ![t] = nullptr]
  /\ call' = [call EXCEPT ![t] = NoCall]
  /\ Goto(t, "r_unlock_cb")
  /\ UNCHANGED <<lockVars, dataVars, notifVars, recVars, registration,
                 event_info, expect, hist, made>>

\* ------------------------------------------------------- specifications
Transport ==
  \E t \in Recorders : on_requested_deadline_missed(t) \/ on_liveliness_changed(t)
Take ==
  \/ \E t \in Consumers : \E k \in EventTypes : TakeCall(t, k)
  \/ \E t \in Consumers : takeNextEvent(t)
Poll ==
  \/ \E t \in Consumers : \E k \in Kinds : HasEventCall(t, k)
  \/ \E t \in Consumers : HasEventReturn(t)
Register ==
  \/ \E t \in Registrars : eventSetExecutorCallback(t)
  \/ \E t \in Recorders \cup Registrars : CallbackReturn(t)
Waiting == \E w \in Waiters : Wait(w)
Reenter ==
  \/ \E t \in Recorders \cup Registrars : \E k \in EventTypes : CallbackTake(t, k)
  \/ \E t \in Recorders \cup Registrars : takeNextEvent(t)
  \/ \E t \in Recorders : TakeLockThrows(t)

\* the endpoint with its transport threads, a consumer that takes and a
\* thread that sets the executor callback; the callback returns without
\* calling into the listener
Next == Transport \/ Take \/ Register
Spec == Init /\ [][Next]_vars

\* the endpoint attached to a wait set: transport threads, a waiter and a
\* consumer that polls and takes
NextWait == Transport \/ Waiting \/ Poll \/ Take
SpecWait == Init /\ [][NextWait]_vars

\* the notification side of the endpoint: the transport threads and a
\* thread that sets and clears the executor callback, the clearing watched
\* by the observer
RegisterNoted ==
  \/ \E t \in Registrars :
       \/ SetCallbackLock(t)
       \/ SetCallbackTest(t)
       \/ SetCallbackReset(t)
       \/ SetCallbackStore(t)
       \/ SetCallbackClearNoted(t)
       \/ SetCallbackUnlock(t)
  \/ \E t \in Recorders \cup Registrars : CallbackReturn(t)
NextNotify == Transport \/ RegisterNoted
SpecNotify == Init /\ [][NextNotify]_vars

\* the endpoint and a consumer that calls takeNextEvent with any value of
\* rmw_event_type_t
TakeAny ==
  \/ \E t \in Consumers : \E k \in AllEventTypes : TakeCall(t, k)
  \/ \E t \in Consumers : \E k \in AllEventTypes : TakeAssertFails(t, k)
  \/ \E t \in Consumers : takeNextEvent(t)
NextTake == Transport \/ TakeAny
SpecTake == Init /\ [][NextTake]_vars

\* the endpoint with every kind of caller at once: a transport thread for
\* each kind (the transport serialises the handlers of a kind), a consumer
\* that polls and takes, a thread that sets and clears the executor
\* callback, and a waiter; the callback returns without calling into the
\* listener.  Which mutex a step locks does not depend on the values
\* recorded, so each handler is given one status value and the consumer
\* asks for the deadline status.  Every thread that has started an operation goes on whenever
\* it can (a thread that waits for a mutex gets it when it is free often
\* enough); the waiter may sleep for ever.
LiveHandler == [r1 |-> RMW_EVENT_REQUESTED_DEADLINE_MISSED,
                r2 |-> RMW_EVENT_LIVELINESS_CHANGED]
LiveInput(k) ==
  IF k = RMW_EVENT_REQUESTED_DEADLINE_MISSED
  THEN [total_count |-> 2, total_count_change |-> 0]
  ELSE [alive_count |-> 1, not_alive_count |-> 0,
        alive_count_change |-> 0, not_alive_count_change |-> 0]
LiveRegistrations ==
  { [user_data |-> "u", callback |-> "f"],
    [user_data |-> nullptr, callback |-> nullptr] }
\* the steps of takeNextEvent called with an event type its switch names
TakeKnown(t) ==
  \/ TakeLock(t)
  \/ \E k \in Kinds : TakeCopy(t, k) \/ TakeReset(t, k) \/ TakeStoreFlag(t, k)
  \/ TakeUnlock(t)
ConsumerBody(t) == TakeKnown(t) \/ HasEventReturn(t)

NextLive ==
  \/ \E t \in Recorders :
       RecordLockInternalWith(t, LiveHandler[t], LiveInput(LiveHandler[t]))
  \/ \E t \in Recorders : RecordBody(t)
  \/ \E t \in Consumers : TakeCall(t, RMW_EVENT_REQUESTED_DEADLINE_MISSED)
  \/ \E t \in Consumers :
       HasEventCall(t, RMW_EVENT_REQUESTED_DEADLINE_MISSED)
  \/ \E t \in Consumers : ConsumerBody(t)
  \/ \E t \in Registrars : \E r \in LiveRegistrations : SetCallbackLockWith(t, r)
  \/ \E t \in Registrars : SetCallbackBody(t)
  \/ Waiting
Fairness ==
  /\ \A t \in Recorders : SF_vars(RecordBody(t))
  /\ \A t \in Consumers : SF_vars(ConsumerBody(t))
  /\ \A t \in Registrars : SF_vars(SetCallbackBody(t))
  /\ \A w \in Waiters : SF_vars(WaitBody(w))
SpecLive == Init /\ [][NextLive]_vars /\ Fairness

\* the endpoint with an executor callback that may call takeNextEvent
NextReentrant == Transport \/ Register \/ Reenter
SpecReentrant == Init /\ [][NextReentrant]_vars

\* ------------------------------------------------------------ properties
RecordInProgress(k) == \E t \in Recorders : handler[t] = k
TakeInProgress(k) == \E t \in Takers : event_type[t] = k /\ pc[t] # "h_ret"
\* the thread is inside takeNextEvent with its result complete (line 149)
Taken(t, k) == pc[t] = "take_unlock" /\ event_type[t] = k

\* C1 (no lost delta): the delta fields a take(k) returns are the sum of the
\* delta contributions of every record(k) since the take(k) before it.
C1_NoLostDelta ==
  \A t \in Takers : \A k \in Kinds :
    Taken(t, k) => DeltaOf(k, event_info[t]) = expect[t].delta

\* a take returns a deadline delta that only two records together make
C1_Witness ==
  \E t \in Consumers :
    /\ Taken(t, RMW_EVENT_REQUESTED_DEADLINE_MISSED)
    /\ event_info[t].total_count_change = 3

\* C2 (buffered then flushed): eventSetExecutorCallback with a callback,
\* called when N >= 1 events were put aside, invokes callback(user_data, N)
\* once before it returns and leaves unread_events_count_ at zero; with N = 0
\* it makes no invocation; and a handler that invokes the callback passes 1.
C2_BufferedThenFlushed ==
  /\ \A t \in Registrars :
       /\ pc[t] = "in_callback" =>
            /\ made[t].pending >= 1
            /\ made[t].calls = 1
            /\ call[t] = [callback |-> registration[t].callback,
                          user_data |-> registration[t].user_data,
                          count |-> made[t].pending]
       /\ (pc[t] = "s_unlock" /\ registration[t].callback # nullptr) =>
            /\ unread_events_count_ = 0
            /\ made[t].calls = (IF made[t].pending >= 1 THEN 1 ELSE 0)
  /\ \A t \in Recorders : pc[t] = "in_callback" => call[t].count = 1

\* the callback was set with two events waiting and has been handed both
C2_Witness ==
  \E t \in Registrars :
    /\ pc[t] = "s_unlock"
    /\ registration[t].callback # nullptr
    /\ made[t].pending = 2
    /\ made[t].calls = 1
    /\ hist.delivered = 2

\* C3 (immediate delivery): a handler that finds a callback registered
\* invokes it once, with the registered user data and 1, before it returns,
\* and leaves unread_events_count_ as it found it.
C3_ImmediateDelivery ==
  \A t \in Recorders :
    /\ pc[t] = "in_callback" =>
         /\ listener_callback_ # nullptr
         /\ call[t] = [callback |-> listener_callback_,
                       user_data |-> user_data_, count |-> 1]
    /\ (pc[t] \in {"in_callback", "r_unlock_cb"} /\ listener_callback_ # nullptr) =>
         /\ made[t].calls = 1
         /\ made[t].buffered = 0
         /\ unread_events_count_ = made[t].counter

\* a handler has invoked the registered callback and is about to unlock
C3_Witness ==
  \E t \in Recorders :
    /\ pc[t] = "r_unlock_cb"
    /\ listener_callback_ = "g"
    /\ made[t].calls = 1

\* C4 (no occurrence dropped): when no handler and no
\* eventSetExecutorCallback is running, the counts handed to the callback
\* so far plus unread_events_count_ make the number of completed handlers.
C4_NothingDropped ==
  (\A t \in Recorders \cup Registrars : pc[t] = "idle") =>
    hist.delivered + unread_events_count_ = hist.completed

\* one event was pushed to a callback that was then cleared, and another
\* one has been counted since
C4_Witness ==
  /\ \A t \in Recorders \cup Registrars : pc[t] = "idle"
  /\ hist.delivered = 1
  /\ unread_events_count_ = 1
  /\ listener_callback_ = nullptr

\* C5 (no missed wake-up): a waiter that has decided to sleep still has no
\* event when it sleeps, and a waiter is asleep with an event flag set only
\* while the handler that set the flag has yet to signal the condition
\* variable.
C5_NoMissedWakeup ==
  \A w \in Waiters :
    /\ pc[w] = "w_sleep" => \A k \in Kinds : ~hasEvent(k)
    /\ (pc[w] = "w_asleep" /\ \E k \in Kinds : hasEvent(k)) =>
         \E t \in Recorders :
           pc[t] \in {"r_lock_cb", "r_notify", "in_callback", "r_unlock_cb",
                      "r_unlock_cond", "r_notify_all"}

\* a waiter is asleep, the flag is set, and the handler is about to signal
C5_Witness ==
  \E w \in Waiters : \E t \in Recorders :
    /\ pc[w] = "w_asleep"
    /\ pc[t] = "r_notify_all"
    /\ deadline_changes_

\* the thread cannot get internalMutex_ for its take: it owns the mutex
\* itself, or the owner waits for the listener_callback_mutex_ this thread
\* holds
TakeBlocked(t) ==
  \/ internalMutex_ = t
  \/ /\ internalMutex_ \in Recorders
     /\ pc[internalMutex_] = "r_lock_cb"
     /\ listener_callback_mutex_ = t

\* C6 (a callback can take): a callback that calls takeNextEvent gets
\* internalMutex_ and its take returns; the threads do not deadlock.
C6_CallbackCanTake ==
  \A t \in Recorders \cup Registrars :
    /\ pc[t] = "take_lock" => ~TakeBlocked(t)
    /\ ret[t] # Threw("std::system_error")

\* C7 (the dispatcher lock alone): no thread holds listener_callback_mutex_
\* together with internalMutex_ or conditionMutex_.
C7_DispatcherLockAlone ==
  \A t \in Threads :
    listener_callback_mutex_ = t => (internalMutex_ # t /\ conditionMutex_ # t)

\* C8 (flag correctness): with no record(k) and no take(k) in progress,
\* hasEvent(k) is true exactly when a record(k) has completed since the
\* last take(k).
C8_FlagCorrect ==
  \A k \in Kinds :
    ~(RecordInProgress(k) \/ TakeInProgress(k)) =>
      (hasEvent(k) <=> hist.recorded[k])

\* hasEvent is true after a record whose change is zero
C8_Witness ==
  /\ ~RecordInProgress(RMW_EVENT_REQUESTED_DEADLINE_MISSED)
  /\ ~TakeInProgress(RMW_EVENT_REQUESTED_DEADLINE_MISSED)
  /\ hasEvent(RMW_EVENT_REQUESTED_DEADLINE_MISSED)
  /\ requested_deadline_missed_status_ = [total_count |-> 2, total_count_change |-> 0]

\* C9 (absolute overwrite): the absolute fields a take(k) returns are those
\* of the last record(k).
C9_AbsoluteOverwrite ==
  \A t \in Takers : \A k \in Kinds :
    (Taken(t, k) /\ expect[t].abs # AbsOf(k, [total_count |-> 0, alive_count |-> 0,
                                              not_alive_count |-> 0])) =>
      AbsOf(k, event_info[t]) = expect[t].abs

\* a take returns the counts of the second of two different liveliness
\* records
C9_Witness ==
  \E t \in Consumers :
    /\ Taken(t, RMW_EVENT_LIVELINESS_CHANGED)
    /\ event_info[t] = [alive_count |-> 1, not_alive_count |-> 3,
                        alive_count_change |-> 0, not_alive_count_change |-> 1]

\* C10 (no duplicate consumption): a take(k) that follows a take(k) with no
\* record(k) between them returns zero deltas and the same absolute fields.
C10_NoDuplicate ==
  \A t \in Takers : \A k \in Kinds :
    (Taken(t, k) /\ expect[t].prev # Uninit) =>
      /\ DeltaOf(k, event_info[t]) = ZeroDelta(k)
      /\ AbsOf(k, event_info[t]) = expect[t].prev

\* the second of two takes after a record of two missed deadlines
C10_Witness ==
  \E t \in Consumers :
    /\ Taken(t, RMW_EVENT_REQUESTED_DEADLINE_MISSED)
    /\ expect[t].prev = [total_count |-> 3]
    /\ event_info[t].total_count_change = 0

\* the events counted between the last eventSetExecutorCallback(nullptr,
\* nullptr) and the moment the running eventSetExecutorCallback locked
Unregistered == hist.carried >= 0
RecordsSinceClear(t) == made[t].pending - hist.carried

\* C11 as stated (unregister is safe, count exactly N): when
\* eventSetExecutorCallback(nullptr, nullptr) is followed by N records and
\* then by eventSetExecutorCallback(data, cb), cb(data, N) is invoked once
\* inside that call, N counting only the records after the unregistration,
\* and a record that finds cb registered invokes cb(data, 1).
C11_UnregisterExactlyN ==
  /\ \A t \in Registrars :
       /\ (pc[t] = "in_callback" /\ Unregistered) =>
            /\ made[t].calls = 1
            /\ call[t] = [callback |-> registration[t].callback,
                          user_data |-> registration[t].user_data,
                          count |-> RecordsSinceClear(t)]
       /\ (pc[t] = "s_store" /\ Unregistered) =>
            made[t].calls = (IF RecordsSinceClear(t) >= 1 THEN 1 ELSE 0)
  /\ \A t \in Recorders :
       pc[t] = "in_callback" =>
         call[t] = [callback |-> listener_callback_, user_data |-> user_data_,
                    count |-> 1]

\* C11 (unregister is safe): when eventSetExecutorCallback(nullptr, nullptr)
\* is followed by N records and then by eventSetExecutorCallback(data, cb),
\* cb is invoked once inside that call with data and N plus the events that
\* were still waiting when the callback was cleared (none, when a callback
\* was registered until then), not at all when that sum is zero, and a
\* record that finds cb registered invokes cb(data, 1).
C11_UnregisterSafe ==
  /\ \A t \in Registrars :
       /\ (pc[t] = "in_callback" /\ Unregistered) =>
            /\ made[t].calls = 1
            /\ call[t] = [callback |-> registration[t].callback,
                          user_data |-> registration[t].user_data,
                          count |-> RecordsSinceClear(t) + hist.carried]
       /\ (pc[t] = "s_store" /\ Unregistered) =>
            made[t].calls =
              (IF RecordsSinceClear(t) + hist.carried >= 1 THEN 1 ELSE 0)
       /\ (pc[t] = "s_unlock" /\ registration[t].callback = nullptr
             /\ made[t].counter = 0) => hist.carried = 0
  /\ \A t \in Recorders :
       pc[t] = "in_callback" =>
         call[t] = [callback |-> listener_callback_, user_data |-> user_data_,
                    count |-> 1]

\* the callback was cleared with one event waiting, one more record
\* followed, and the callback set after it is handed both
C11_Witness ==
  \E t \in Registrars :
    /\ pc[t] = "in_callback"
    /\ hist.carried = 1
    /\ RecordsSinceClear(t) = 1
    /\ call[t].count = 2

\* C12 (NotificationState): unread_events_count_ is zero in every state in
\* which a callback is registered, and no step makes the counter grow
\* while a callback is registered.
C12_CounterZeroWhenRegistered ==
  /\ [](listener_callback_ # nullptr => unread_events_count_ = 0)
  /\ [][unread_events_count_' > unread_events_count_ =>
          (listener_callback_ = nullptr /\ listener_callback_' = nullptr)]_vars

\* a callback is registered after two events were counted and pushed to it
C12_Witness ==
  /\ listener_callback_ = "f"
  /\ unread_events_count_ = 0
  /\ hist.delivered = 2
  /\ hist.completed = 2

\* the thread is inside takeNextEvent
InTake(t) ==
  pc[t] \in {"take_lock", "take_copy", "take_reset", "take_store",
             "take_default", "take_unlock"}

\* C13 (take of an unsupported kind): takeNextEvent called with an event
\* type that is not supported, or that the switch does not name, returns
\* false, and none of its steps changes a status, a flag, event_info, the
\* callback, the user data or the counter; called with an event type the
\* switch names it returns true.
C13_UnsupportedTakeReturnsFalse ==
  /\ [](\A t \in Consumers :
          /\ ret[t] # Threw("abort")
          /\ pc[t] = "take_unlock" => (ret[t] = Returned(event_type[t] \in Kinds)))
  /\ [][\A t \in Consumers :
          ((pc[t] = "idle" \/ InTake(t)) /\ pc'[t] # pc[t]
             /\ event_type'[t] \notin Kinds /\ event_type[t] \notin Kinds) =>
            UNCHANGED <<dataVars, notifVars, event_info>>]_vars

\* the mutexes thread t owns
Owns(t) ==
  internalMutex_ = t \/ conditionMutex_ = t \/ listener_callback_mutex_ = t
\* the thread that owns the mutex the next step of t locks, when t has to
\* wait for it
WaitsFor(t) ==
  CASE t \in Threads /\ pc[t] = "take_lock" -> internalMutex_
    [] t \in Threads /\ pc[t] \in {"r_lock_cond", "w_wake"} -> conditionMutex_
    [] t \in Threads /\ pc[t] = "r_lock_cb" -> listener_callback_mutex_
    [] OTHER -> NoThread
\* threads that wait for one another in a circle
Deadlocked ==
  \E t \in Threads :
    \/ WaitsFor(t) = t
    \/ WaitsFor(WaitsFor(t)) = t
    \/ WaitsFor(WaitsFor(WaitsFor(t))) = t
    \/ WaitsFor(WaitsFor(WaitsFor(WaitsFor(t)))) = t
Operators == Recorders \cup Consumers \cup Registrars

\* C14 (no operation blocks for ever): with a callback that returns without
\* calling into the listener, no threads wait for one another in a circle,
\* a thread outside every operation owns no mutex, and every handler,
\* takeNextEvent, hasEvent and eventSetExecutorCallback call that has
\* started returns (each of these threads is outside every operation again
\* and again).
C14_NoIndefiniteBlocking ==
  /\ [](~Deadlocked)
  /\ [](\A t \in Operators : pc[t] = "idle" => ~Owns(t))
  /\ \A t \in Operators : []<>(pc[t] = "idle")

\* every mutex is contended: the consumer waits for internalMutex_ and the
\* waiter for conditionMutex_, both owned by a handler that waits for the
\* listener_callback_mutex_ eventSetExecutorCallback owns, which is inside
\* the callback
C14_Witness ==
  \E r \in Recorders : \E c \in Consumers : \E s \in Registrars : \E w \in Waiters :
    /\ pc[r] = "r_lock_cb" /\ WaitsFor(r) = s
    /\ pc[c] = "take_lock" /\ WaitsFor(c) = r
    /\ pc[w] = "w_wake" /\ WaitsFor(w) = r
    /\ pc[s] = "in_callback"

\* the thread is inside a handler, past line 33 / 60
InRecord(t) == t \in Recorders /\ handler[t] # nullptr
\* the thread is inside takeNextEvent, past line 123
InTakeBody(t) ==
  pc[t] \in {"take_copy", "take_reset", "take_store", "take_default", "take_unlock"}

\* C15 (record and take exclude each other, take is atomic): a thread
\* inside a handler or inside the copy-and-reset of takeNextEvent owns
\* internalMutex_, so no two threads are there at once; and what a take(k)
\* returns is the status as whole records left it: the absolute fields of
\* the last record(k) with the sum of the deltas of every record(k) since
\* the take before, the stored deltas being zero and the flag false when
\* the take returns.
C15_RecordTakeExclusive ==
  /\ \A t \in Takers : (InRecord(t) \/ InTakeBody(t)) => internalMutex_ = t
  /\ \A t \in Takers : \A k \in Kinds :
       Taken(t, k) =>
         /\ AbsOf(k, event_info[t]) = expect[t].abs
         /\ DeltaOf(k, event_info[t]) = expect[t].delta
         /\ DeltaOf(k, StatusOf(k)) = ZeroDelta(k)
         /\ ~hasEvent(k)

\* a handler has updated the liveliness status and not yet set the flag,
\* and a take of that status waits for internalMutex_
C15_Witness ==
  \E c \in Consumers : \E r \in Recorders :
    /\ pc[c] = "take_lock"
    /\ event_type[c] = RMW_EVENT_LIVELINESS_CHANGED
    /\ pc[r] = "r_flag"
    /\ handler[r] = RMW_EVENT_LIVELINESS_CHANGED
    /\ internalMutex_ = r

\* the thread is at the notify step of its handler: about to lock
\* listener_callback_mutex_, testing listener_callback_, inside the
\* callback, or just past the callback or the increment
AtNotify(t) == pc[t] \in {"r_lock_cb", "r_notify", "in_callback", "r_unlock_cb"}

\* C16 (data before notification): when a handler of kind k invokes the
\* callback with 1, or counts the event, hasEvent(k) is true and the stored
\* status of kind k holds that record's absolute fields and its delta
\* contribution.
C16_DataBeforeNotification ==
  \A t \in Recorders : \A k \in Kinds :
    (handler[t] = k /\ AtNotify(t)) =>
      /\ hasEvent(k)
      /\ AbsOf(k, StatusOf(k)) = hist.abs[k]
      /\ DeltaOf(k, StatusOf(k)) = hist.delta[k]
      /\ pc[t] = "in_callback" => call[t].count = 1

\* the callback runs for the second of two deadline records and the stored
\* status already holds what both contributed
C16_Witness ==
  \E t \in Recorders :
    /\ pc[t] = "in_callback"
    /\ handler[t] = RMW_EVENT_REQUESTED_DEADLINE_MISSED
    /\ deadline_changes_
    /\ requested_deadline_missed_status_ = [total_count |-> 3, total_count_change |-> 3]

\* C17 (the data lock before the wait-coordination lock): a handler locks
\* conditionMutex_ only after it has unlocked internalMutex_, so that no
\* thread owns both, and it writes no status field and no flag while it
\* owns conditionMutex_.
C17_DataLockReleasedFirst ==
  \A t \in Recorders :
    /\ ~(internalMutex_ = t /\ conditionMutex_ = t)
    /\ pc[t] \in {"r_update", "r_flag"} => conditionMutex_ # t

\* the kind that is not k
OtherKind(k) ==
  IF k = RMW_EVENT_REQUESTED_DEADLINE_MISSED
  THEN RMW_EVENT_LIVELINESS_CHANGED ELSE RMW_EVENT_REQUESTED_DEADLINE_MISSED
\* the step is one of a takeNextEvent(k) call
TakeStep(k) == \E t \in Takers : InTake(t) /\ event_type[t] = k /\ pc'[t] # pc[t]
\* the step is one of a handler of kind k
RecordStep(k) ==
  \E t \in Recorders : (handler[t] = k \/ handler'[t] = k) /\ pc'[t] # pc[t]
\* the step is the status update of a handler of kind k, which adds the
\* deltas of its `status` to the stored ones
RecordAdds(k) ==
  \E t \in Recorders :
    /\ handler[t] = k /\ pc[t] = "r_update" /\ pc'[t] # pc[t]
    /\ DeltaOf(k, StatusOf(k))' = AddDelta(DeltaOf(k, StatusOf(k)), DeltaOf(k, status[t]))

\* C18 (frame of take and record): a step of takeNextEvent(k) changes at
\* most the delta fields of kind k, to zero, and the flag of kind k, to
\* false: the absolute fields of kind k, the status and the flag of the
\* other kind, the callback, the user data and the counter stay as they
\* are.  A step of a handler of kind k leaves the status and the flag of
\* the other kind as they are.  And the delta fields of kind k change only
\* by a handler of kind k adding to them or by takeNextEvent(k) resetting
\* them.
C18_Frame ==
  [][\A k \in Kinds :
       /\ TakeStep(k) =>
            /\ AbsOf(k, StatusOf(k))' = AbsOf(k, StatusOf(k))
            /\ DeltaOf(k, StatusOf(k))' \in {DeltaOf(k, StatusOf(k)), ZeroDelta(k)}
            /\ hasEvent(k)' => hasEvent(k)
            /\ StatusOf(OtherKind(k))' = StatusOf(OtherKind(k))
            /\ hasEvent(OtherKind(k))' = hasEvent(OtherKind(k))
            /\ UNCHANGED notifVars
       /\ RecordStep(k) =>
            /\ StatusOf(OtherKind(k))' = StatusOf(OtherKind(k))
            /\ hasEvent(OtherKind(k))' = hasEvent(OtherKind(k))
       /\ ~TakeStep(k) =>
            \/ DeltaOf(k, StatusOf(k))' = DeltaOf(k, StatusOf(k))
            \/ RecordAdds(k)]_vars

\* a take of the deadline status is complete while the liveliness status
\* is unread and two events are counted: they are as the handlers left them
C18_Witness ==
  \E t \in Consumers :
    /\ Taken(t, RMW_EVENT_REQUESTED_DEADLINE_MISSED)
    /\ event_info[t] = [total_count |-> 1, total_count_change |-> 1]
    /\ liveliness_changes_
    /\ liveliness_changed_status_ =
         [alive_count |-> 2, not_alive_count |-> 0,
          alive_count_change |-> 1, not_alive_count_change |-> 0]
    /\ unread_events_count_ = 2

\* C19 (the flag covers unread deltas): whenever internalMutex_ is free, a
\* kind whose flag is false has all its delta fields at zero.
C19_FlagCoversDeltas ==
  internalMutex_ = NoThread =>
    \A k \in Kinds : ~hasEvent(k) => DeltaOf(k, StatusOf(k)) = ZeroDelta(k)

\* internalMutex_ is free after a take of liveliness changes that were not
\* zero: the flag is false and the deltas are zero, while the deadline flag
\* is true over a delta of zero
C19_Witness ==
  /\ internalMutex_ = NoThread
  /\ ~liveliness_changes_
  /\ liveliness_changed_status_ =
       [alive_count |-> 1, not_alive_count |-> 3,
        alive_count_change |-> 0, not_alive_count_change |-> 0]
  /\ deadline_changes_
  /\ requested_deadline_missed_status_.total_count_change = 0

\* the thread is inside an invocation of the executor callback
InCallback(t) == call[t] # NoCall
\* the (user_data, callback) pair an invocation was made with
PairOf(c) == [user_data |-> c.user_data, callback |-> c.callback]

\* C20 (registration is atomic with respect to notify): no two invocations
\* of the callback overlap; a handler invokes the callback that is
\* registered with the user data registered together with it; and when
\* eventSetExecutorCallback returns, the target is the one it was given
\* and no callback is running, so that the callback registered before is
\* not running and no handler invokes it again.
C20_RegistrationAtomic ==
  /\ \A t \in Takers : InCallback(t) => listener_callback_mutex_ = t
  /\ \A t1, t2 \in Takers : (InCallback(t1) /\ InCallback(t2)) => t1 = t2
  /\ \A t \in Recorders :
       InCallback(t) =>
         /\ PairOf(call[t]) \in Registrations
         /\ call[t].callback = listener_callback_
         /\ call[t].user_data = user_data_
  /\ \A s \in Registrars :
       /\ InCallback(s) => PairOf(call[s]) = registration[s]
       /\ pc[s] = "s_unlock" =>
            /\ listener_callback_ = registration[s].callback
            /\ user_data_ = (IF registration[s].callback = nullptr
                              THEN nullptr ELSE registration[s].user_data)
            /\ \A t \in Takers : ~InCallback(t)

\* eventSetExecutorCallback(v, g) is about to return without having pushed
\* anything, an event was handed to a callback before, and a handler waits
\* for listener_callback_mutex_ to notify
C20_Witness ==
  \E s \in Registrars : \E r \in Recorders :
    /\ pc[s] = "s_unlock"
    /\ registration[s] = [user_data |-> "v", callback |-> "g"]
    /\ made[s].calls = 0
    /\ hist.delivered = 1
    /\ pc[r] = "r_lock_cb"

====
